---- MODULE Spec2Model ----
(***************************************************************************)
(* Model of pa3.c: a spinlock, a blocking mutex built on a counter S, a    *)
(* wait queue and SIGINT wake-ups, and a process-wide ring buffer.         *)
(* Every thread is a process whose program counter names the source line   *)
(* it is about to execute; one action is one shared-memory access.         *)
(***************************************************************************)
EXTENDS Integers, Naturals, Sequences, FiniteSets, TLC

(* ---- bounds ---- *)
NumSpinThreads == 3
SpinCycles == 2

NumMutexThreads == 3
MaxAcquires == 4

MaxSlots == 2
NumProducers == 2
NumConsumers == 2
MaxItems == 3
MaxInits == 2

SpinThreads == 1..NumSpinThreads
MutexThreads == 1..NumMutexThreads
NoThread == 0
Producers == 1..NumProducers
Consumers == (NumProducers + 1)..(NumProducers + NumConsumers)
RingThreads == Producers \cup Consumers
NotSent == -1

VARIABLES
  l_held,     \* struct spinlock .held
  counter,    \* shared counter the spinlock's callers increment
  spc,        \* spinlock caller: position
  sreg,       \* spinlock caller: value of counter it read
  scycles     \* spinlock caller: acquire/release cycles completed

spinvars == <<l_held, counter, spc, sreg, scycles>>

VARIABLES
  m_S,        \* struct mutex .S
  m_Q,        \* struct mutex .Q: the waiter records linked in it, head first,
              \*   each named by the thread that allocated it
  m_held,     \* struct mutex .held
  mpc,        \* mutex caller: source line it is about to execute
  mreg,       \* mutex caller: value of S loaded by S-- / S++
  mnext,      \* release_mutex: local next (the thread whose record it is,
              \*   NoThread when it is not a waiter record at all)
  sigblocked, \* thread has SIGINT in its signal mask
  sigpending, \* a SIGINT is pending for the thread
  terminated, \* the process was ended (SIGINT delivered with its default
              \*   action, or a fault on an invalid pointer)
  mblocking,  \* history: this acquire_mutex call took the S < 0 branch
  ahead,      \* history: waiters that were queued before this one and have
              \*   not returned from acquire_mutex since
  mseen,      \* history: the waiters that were queued when this
              \*   release_mutex call was made
  macq,       \* number of acquire_mutex calls made so far
  mkilled     \* history: what this release_mutex call signalled
              \*   (NotSent, NoThread, or a thread)

mutexvars == <<m_S, m_Q, m_held, mpc, mreg, mnext, sigblocked,
               sigpending, terminated, mblocking, ahead, mseen, macq, mkilled>>

VARIABLES
  rb_nr_slots, \* ringbuffer.nr_slots
  rb_slots,    \* ringbuffer.slots[0 .. nr_slots-1]
  rb_held,     \* ringbuffer.held
  rb_count,    \* ringbuffer.count
  rb_out,      \* ringbuffer.out
  rb_in,       \* ringbuffer.in
  rpc,         \* ring buffer caller: source line it is about to execute
  rval,        \* enqueue_into_ringbuffer: parameter value
  rtmp,        \* dequeue_from_ringbuffer: local tmp
  rreg,        \* value of count loaded by count++ / count--
  enqueued,    \* history: the values passed to enqueue, in call order
  dequeued,    \* history: the values returned by dequeue, in return order
  ndeq,        \* number of dequeue_from_ringbuffer calls made so far
  written,     \* history: the values stored into slots (line 254), in order
  rb_alloc,    \* what ringbuffer.slots points to: "null" (never allocated,
               \*   or malloc failed), "live", or "freed"
  lpc,         \* the thread that owns the buffer's lifecycle: "start" before
               \*   init_ringbuffer, "open" after it returned 0, "closed"
               \*   after fini_ringbuffer, "fault" once a thread accessed
               \*   slot storage that is not live
  linit        \* history: for each init_ringbuffer call that returned, its
               \*   argument, its return value, whether the slot storage
               \*   was allocated, and the fields it left

lifevars == <<rb_alloc, lpc, linit>>

ringvars == <<rb_nr_slots, rb_slots, rb_held, rb_count, rb_out, rb_in,
              rpc, rval, rtmp, rreg, enqueued, dequeued, ndeq,
              written, rb_alloc, lpc, linit>>

vars == <<l_held, counter, spc, sreg, scycles,
          m_S, m_Q, m_held, mpc, mreg, mnext, sigblocked,
          sigpending, terminated, mblocking, ahead, mseen, macq, mkilled,
          rb_nr_slots, rb_slots, rb_held, rb_count, rb_out, rb_in,
          rpc, rval, rtmp, rreg, enqueued, dequeued, ndeq,
          written, rb_alloc, lpc, linit>>

(* ---- atomic.h: compare_and_swap(ptr, old, new) ---- *)
(* returns the value previously stored ...                                 *)
CasReturn(cur, old, new) == cur
(* ... and stores new only when that value equals old                      *)
CasStore(cur, old, new) == IF cur = old THEN new ELSE cur

(* ======================= Spinlock ======================================= *)
init_spinlock ==
  /\ l_held = 0

InitSpin ==
  /\ init_spinlock
  /\ counter = 0
  /\ spc = [t \in SpinThreads |-> "out"]
  /\ sreg = [t \in SpinThreads |-> 0]
  /\ scycles = [t \in SpinThreads |-> 0]

(* caller: starts a cycle by calling acquire_spinlock *)
SpinCall(t) ==
  /\ spc[t] = "out"
  /\ scycles[t] < SpinCycles
  /\ spc' = [spc EXCEPT ![t] = "acquire"]
  /\ UNCHANGED <<l_held, counter, sreg, scycles>>
  /\ UNCHANGED <<mutexvars, ringvars>>

(* acquire_spinlock that takes the lock without looking at what           *)
(* compare_and_swap returned                                               *)
acquire_spinlock_IgnoresCas(t) ==
  /\ spc[t] = "acquire"
  /\ l_held' = 1
  /\ spc' = [spc EXCEPT ![t] = "read"]
  /\ UNCHANGED <<counter, sreg, scycles>>
  /\ UNCHANGED <<mutexvars, ringvars>>

(* while (compare_and_swap(&l->held, 0, 1)) ; return;  -- one iteration *)
acquire_spinlock(t) ==
  /\ spc[t] = "acquire"
  /\ l_held' = CasStore(l_held, 0, 1)
  /\ spc' = [spc EXCEPT ![t] = IF CasReturn(l_held, 0, 1) # 0 THEN "acquire" ELSE "read"]
  /\ UNCHANGED <<counter, sreg, scycles>>
  /\ UNCHANGED <<mutexvars, ringvars>>

(* caller, inside the region: non-atomic counter++ (read) *)
SpinRead(t) ==
  /\ spc[t] = "read"
  /\ sreg' = [sreg EXCEPT ![t] = counter]
  /\ spc' = [spc EXCEPT ![t] = "write"]
  /\ UNCHANGED <<l_held, counter, scycles>>
  /\ UNCHANGED <<mutexvars, ringvars>>

(* caller, inside the region: non-atomic counter++ (write) *)
SpinWrite(t) ==
  /\ spc[t] = "write"
  /\ counter' = sreg[t] + 1
  /\ spc' = [spc EXCEPT ![t] = "release"]
  /\ UNCHANGED <<l_held, sreg, scycles>>
  /\ UNCHANGED <<mutexvars, ringvars>>

(* l->held = 0; return; *)
release_spinlock(t) ==
  /\ spc[t] = "release"
  /\ l_held' = 0
  /\ spc' = [spc EXCEPT ![t] = "out"]
  /\ scycles' = [scycles EXCEPT ![t] = @ + 1]
  /\ UNCHANGED <<counter, sreg>>
  /\ UNCHANGED <<mutexvars, ringvars>>

NextSpin ==
  \E t \in SpinThreads :
    \/ SpinCall(t)
    \/ acquire_spinlock(t)
    \/ SpinRead(t)
    \/ SpinWrite(t)
    \/ release_spinlock(t)


(* ======================= Mutex ========================================== *)
Range(q) == {q[i] : i \in 1..Len(q)}

(* lines of acquire_mutex at which the caller's waiter record holds its     *)
(* pthread (line 163) and has not been freed (line 183)                     *)
RecordValid(w) == mpc[w] \in {"L165", "L169", "L175", "L177", "L183"}

init_mutex ==
  /\ m_Q = <<>>
  /\ m_held = 0
  /\ m_S = 1

InitMutex ==
  /\ init_mutex
  /\ mpc = [t \in MutexThreads |-> "out"]
  /\ mreg = [t \in MutexThreads |-> 0]
  /\ mnext = [t \in MutexThreads |-> NoThread]
  /\ sigblocked = [t \in MutexThreads |-> FALSE]
  /\ sigpending = [t \in MutexThreads |-> FALSE]
  /\ terminated = FALSE
  /\ mblocking = [t \in MutexThreads |-> FALSE]
  /\ ahead = [t \in MutexThreads |-> {}]
  /\ mkilled = [t \in MutexThreads |-> NotSent]
  /\ macq = 0
  /\ mseen = [t \in MutexThreads |-> {}]

MGoto(t, l) == mpc' = [mpc EXCEPT ![t] = l]

(* caller: calls acquire_mutex; line 152 allocates the waiter record *)
MCallAcquire(t) ==
  /\ ~terminated
  /\ mpc[t] = "out"
  /\ macq < MaxAcquires
  /\ macq' = macq + 1
  /\ MGoto(t, "L155")
  /\ UNCHANGED <<m_S, m_Q, m_held, mreg, mnext, sigblocked, sigpending,
                 terminated, mblocking, ahead, mkilled, mseen>>
  /\ UNCHANGED <<spinvars, ringvars>>

(* 155: while (compare_and_swap(&mutex->held, 0, 1)) ;  -- one iteration *)
AcqSpin(t) ==
  /\ ~terminated
  /\ mpc[t] = "L155"
  /\ m_held' = CasStore(m_held, 0, 1)
  /\ MGoto(t, IF CasReturn(m_held, 0, 1) # 0 THEN "L155" ELSE "L157r")
  /\ UNCHANGED <<m_S, m_Q, mreg, mnext, sigblocked, sigpending,
                 terminated, mblocking, ahead, mkilled, macq, mseen>>
  /\ UNCHANGED <<spinvars, ringvars>>

(* 157: mutex->S--  (load) *)
AcqLoadS(t) ==
  /\ ~terminated
  /\ mpc[t] = "L157r"
  /\ mreg' = [mreg EXCEPT ![t] = m_S]
  /\ MGoto(t, "L157w")
  /\ UNCHANGED <<m_S, m_Q, m_held, mnext, sigblocked, sigpending,
                 terminated, mblocking, ahead, mkilled, macq, mseen>>
  /\ UNCHANGED <<spinvars, ringvars>>

(* 157: mutex->S--  (store) *)
AcqStoreS(t) ==
  /\ ~terminated
  /\ mpc[t] = "L157w"
  /\ m_S' = mreg[t] - 1
  /\ MGoto(t, "L158")
  /\ UNCHANGED <<m_Q, m_held, mreg, mnext, sigblocked, sigpending,
                 terminated, mblocking, ahead, mkilled, macq, mseen>>
  /\ UNCHANGED <<spinvars, ringvars>>

(* 158: if (mutex->S < 0): the value tested is the one just stored, kept   *)
(* in a register, or S read again from memory                              *)
AcqTest(t) ==
  /\ ~terminated
  /\ mpc[t] = "L158"
  /\ \E v \in {mreg[t] - 1, m_S} :
       /\ MGoto(t, IF v < 0 THEN "L162" ELSE "L183")
       /\ mblocking' = [mblocking EXCEPT ![t] = (v < 0)]
  /\ mreg' = [mreg EXCEPT ![t] = 0]
  /\ UNCHANGED <<m_S, m_Q, m_held, mnext, sigblocked, sigpending,
                 terminated, ahead, mkilled, macq, mseen>>
  /\ UNCHANGED <<spinvars, ringvars>>

(* 160-162: sigprocmask(SIG_BLOCK, {SIGINT}) *)
AcqBlockSig(t) ==
  /\ ~terminated
  /\ mpc[t] = "L162"
  /\ sigblocked' = [sigblocked EXCEPT ![t] = TRUE]
  /\ MGoto(t, "L164")
  /\ UNCHANGED <<m_S, m_Q, m_held, mreg, mnext, sigpending,
                 terminated, mblocking, ahead, mkilled, macq, mseen>>
  /\ UNCHANGED <<spinvars, ringvars>>

(* 163-164: new->pthread = pthread_self(); list_add_tail(&new->list, &Q) *)
AcqEnqueue(t) ==
  /\ ~terminated
  /\ mpc[t] = "L164"
  /\ m_Q' = Append(m_Q, t)
  /\ ahead' = [ahead EXCEPT ![t] = Range(m_Q) \ {t}]
  /\ MGoto(t, "L165")
  /\ UNCHANGED <<m_S, m_held, mreg, mnext, sigblocked, sigpending,
                 terminated, mblocking, mkilled, macq, mseen>>
  /\ UNCHANGED <<spinvars, ringvars>>

(* 165: mutex->held = 0 *)
AcqUnlockWait(t) ==
  /\ ~terminated
  /\ mpc[t] = "L165"
  /\ m_held' = 0
  /\ MGoto(t, "L169")
  /\ UNCHANGED <<m_S, m_Q, mreg, mnext, sigblocked, sigpending,
                 terminated, mblocking, ahead, mkilled, macq, mseen>>
  /\ UNCHANGED <<spinvars, ringvars>>

(* 167-173: sigwait(&mask, &sig_no) returns once a SIGINT is pending *)
AcqSigwait(t) ==
  /\ ~terminated
  /\ mpc[t] = "L169"
  /\ sigpending[t]
  /\ sigpending' = [sigpending EXCEPT ![t] = FALSE]
  /\ MGoto(t, "L175")
  /\ UNCHANGED <<m_S, m_Q, m_held, mreg, mnext, sigblocked,
                 terminated, mblocking, ahead, mkilled, macq, mseen>>
  /\ UNCHANGED <<spinvars, ringvars>>

(* 175: while (compare_and_swap(&mutex->held, 0, 1)) ;  -- one iteration *)
AcqSpinWoken(t) ==
  /\ ~terminated
  /\ mpc[t] = "L175"
  /\ m_held' = CasStore(m_held, 0, 1)
  /\ MGoto(t, IF CasReturn(m_held, 0, 1) # 0 THEN "L175" ELSE "L177")
  /\ UNCHANGED <<m_S, m_Q, mreg, mnext, sigblocked, sigpending,
                 terminated, mblocking, ahead, mkilled, macq, mseen>>
  /\ UNCHANGED <<spinvars, ringvars>>

(* 177: sigprocmask(SIG_UNBLOCK, {SIGINT}); a SIGINT still pending is      *)
(* delivered at once, with its default action                              *)
AcqUnblockSig(t) ==
  /\ ~terminated
  /\ mpc[t] = "L177"
  /\ sigblocked' = [sigblocked EXCEPT ![t] = FALSE]
  /\ sigpending' = [sigpending EXCEPT ![t] = FALSE]
  /\ terminated' = sigpending[t]
  /\ MGoto(t, "L183")
  /\ UNCHANGED <<m_S, m_Q, m_held, mreg, mnext, mblocking, ahead, mkilled, macq, mseen>>
  /\ UNCHANGED <<spinvars, ringvars>>

(* 183: free(new) *)
AcqFree(t) ==
  /\ ~terminated
  /\ mpc[t] = "L183"
  /\ MGoto(t, "L184")
  /\ UNCHANGED <<m_S, m_Q, m_held, mreg, mnext, sigblocked, sigpending,
                 terminated, mblocking, ahead, mkilled, macq, mseen>>
  /\ UNCHANGED <<spinvars, ringvars>>

(* 184-185: mutex->held = 0; return *)
AcqReturn(t) ==
  /\ ~terminated
  /\ mpc[t] = "L184"
  /\ m_held' = 0
  /\ ahead' = [u \in MutexThreads |-> IF u = t THEN {} ELSE ahead[u] \ {t}]
  /\ mblocking' = [mblocking EXCEPT ![t] = FALSE]
  /\ MGoto(t, "cs")
  /\ UNCHANGED <<m_S, m_Q, mreg, mnext, sigblocked, sigpending,
                 terminated, mkilled, macq, mseen>>
  /\ UNCHANGED <<spinvars, ringvars>>

(* caller: the thread that returned from acquire_mutex calls release_mutex *)
MCallRelease(t) ==
  /\ ~terminated
  /\ mpc[t] = "cs"
  /\ mseen' = [mseen EXCEPT ![t] = Range(m_Q)]
  /\ MGoto(t, "L204")
  /\ UNCHANGED <<m_S, m_Q, m_held, mreg, mnext, sigblocked, sigpending,
                 terminated, mblocking, ahead, mkilled, macq>>
  /\ UNCHANGED <<spinvars, ringvars>>

(* 204: while (compare_and_swap(&mutex->held, 0, 1)) ;  -- one iteration *)
RelSpin(t) ==
  /\ ~terminated
  /\ mpc[t] = "L204"
  /\ m_held' = CasStore(m_held, 0, 1)
  /\ MGoto(t, IF CasReturn(m_held, 0, 1) # 0 THEN "L204" ELSE "L206r")
  /\ UNCHANGED <<m_S, m_Q, mreg, mnext, sigblocked, sigpending,
                 terminated, mblocking, ahead, mkilled, macq, mseen>>
  /\ UNCHANGED <<spinvars, ringvars>>

(* 206: mutex->S++  (load) *)
RelLoadS(t) ==
  /\ ~terminated
  /\ mpc[t] = "L206r"
  /\ mreg' = [mreg EXCEPT ![t] = m_S]
  /\ MGoto(t, "L206w")
  /\ UNCHANGED <<m_S, m_Q, m_held, mnext, sigblocked, sigpending,
                 terminated, mblocking, ahead, mkilled, macq, mseen>>
  /\ UNCHANGED <<spinvars, ringvars>>

(* 206: mutex->S++  (store) *)
RelStoreS(t) ==
  /\ ~terminated
  /\ mpc[t] = "L206w"
  /\ m_S' = mreg[t] + 1
  /\ MGoto(t, "L207")
  /\ UNCHANGED <<m_Q, m_held, mreg, mnext, sigblocked, sigpending,
                 terminated, mblocking, ahead, mkilled, macq, mseen>>
  /\ UNCHANGED <<spinvars, ringvars>>

(* 207: if (mutex->S <= 0): register value or S read again *)
RelTest(t) ==
  /\ ~terminated
  /\ mpc[t] = "L207"
  /\ \E v \in {mreg[t] + 1, m_S} :
       MGoto(t, IF v <= 0 THEN "L209" ELSE "L216")
  /\ mreg' = [mreg EXCEPT ![t] = 0]
  /\ UNCHANGED <<m_S, m_Q, m_held, mnext, sigblocked, sigpending,
                 terminated, mblocking, ahead, mkilled, macq, mseen>>
  /\ UNCHANGED <<spinvars, ringvars>>

(* 209-210: next = list_first_entry(&mutex->Q, ...); list_del_init(...).   *)
(* On an empty list list_first_entry yields the list head itself, which is *)
(* no waiter record, and list_del_init leaves the list empty.  Unlinking a *)
(* record its owner has freed either finds the links intact or faults.     *)
RelDequeue(t) ==
  /\ ~terminated
  /\ mpc[t] = "L209"
  /\ IF m_Q = <<>>
       THEN /\ mnext' = [mnext EXCEPT ![t] = NoThread]
            /\ UNCHANGED <<m_Q, terminated>>
       ELSE /\ mnext' = [mnext EXCEPT ![t] = Head(m_Q)]
            /\ m_Q' = Tail(m_Q)
            /\ \/ terminated' = FALSE
               \/ ~RecordValid(Head(m_Q)) /\ terminated' = TRUE
  /\ MGoto(t, "L211")
  /\ UNCHANGED <<m_S, m_held, mreg, sigblocked, sigpending,
                 mblocking, ahead, mkilled, macq, mseen>>
  /\ UNCHANGED <<spinvars, ringvars>>

(* 211: mutex->held = 0 *)
RelUnlockEarly(t) ==
  /\ ~terminated
  /\ mpc[t] = "L211"
  /\ m_held' = 0
  /\ MGoto(t, "L213")
  /\ UNCHANGED <<m_S, m_Q, mreg, mnext, sigblocked, sigpending,
                 terminated, mblocking, ahead, mkilled, macq, mseen>>
  /\ UNCHANGED <<spinvars, ringvars>>

(* the threads pthread_kill(next->pthread, SIGINT) can reach: the owner of *)
(* the record when next is a record that holds its pthread and is not      *)
(* freed; otherwise next->pthread is whatever the memory holds (any thread *)
(* or no thread at all)                                                    *)
KillTargets(t) ==
  IF mnext[t] # NoThread /\ RecordValid(mnext[t])
    THEN {mnext[t]}
    ELSE MutexThreads \cup {NoThread}

(* 213: pthread_kill(next->pthread, SIGINT): the signal becomes pending at *)
(* a thread that blocks SIGINT and ends the process otherwise              *)
RelKill(t) ==
  /\ ~terminated
  /\ mpc[t] = "L213"
  /\ \E x \in KillTargets(t) :
       /\ mkilled' = [mkilled EXCEPT ![t] = x]
       /\ IF x = NoThread
            THEN UNCHANGED <<sigpending, terminated>>
            ELSE IF sigblocked[x]
              THEN /\ sigpending' = [sigpending EXCEPT ![x] = TRUE]
                   /\ UNCHANGED terminated
              ELSE /\ terminated' = TRUE
                   /\ UNCHANGED sigpending
  /\ MGoto(t, "L216")
  /\ UNCHANGED <<m_S, m_Q, m_held, mreg, mnext, sigblocked,
                 mblocking, ahead, macq, mseen>>
  /\ UNCHANGED <<spinvars, ringvars>>

(* 216-217: mutex->held = 0; return *)
RelReturn(t) ==
  /\ ~terminated
  /\ mpc[t] = "L216"
  /\ m_held' = 0
  /\ mnext' = [mnext EXCEPT ![t] = NoThread]
  /\ mkilled' = [mkilled EXCEPT ![t] = NotSent]
  /\ mseen' = [mseen EXCEPT ![t] = {}]
  /\ MGoto(t, "out")
  /\ UNCHANGED <<m_S, m_Q, mreg, sigblocked, sigpending,
                 terminated, mblocking, ahead, macq>>
  /\ UNCHANGED <<spinvars, ringvars>>

acquire_mutex(t) ==
  \/ AcqSpin(t) \/ AcqLoadS(t) \/ AcqStoreS(t) \/ AcqTest(t)
  \/ AcqBlockSig(t) \/ AcqEnqueue(t) \/ AcqUnlockWait(t) \/ AcqSigwait(t)
  \/ AcqSpinWoken(t) \/ AcqUnblockSig(t) \/ AcqFree(t) \/ AcqReturn(t)

release_mutex(t) ==
  \/ RelSpin(t) \/ RelLoadS(t) \/ RelStoreS(t) \/ RelTest(t)
  \/ RelDequeue(t) \/ RelUnlockEarly(t) \/ RelKill(t) \/ RelReturn(t)

NextMutex ==
  \E t \in MutexThreads :
    \/ MCallAcquire(t)
    \/ acquire_mutex(t)
    \/ MCallRelease(t)
    \/ release_mutex(t)


(* ======================= Ring buffer ==================================== *)
(* init_ringbuffer(nr_slots): lines 316-323; the slots hold whatever       *)
(* malloc returned, written here as 0, which no caller enqueues            *)
init_ringbuffer(n) ==
  /\ rb_nr_slots = n
  /\ rb_slots = [i \in 0..(n - 1) |-> 0]
  /\ rb_in = 0
  /\ rb_out = 0
  /\ rb_count = 0
  /\ rb_held = 0

(* 323: return 0 *)
InitStatus == 0

(* what an init_ringbuffer(n) call that has returned is remembered by *)
InitRecord(n, ok, nr, in, out, count, held) ==
  [arg |-> n, status |-> InitStatus, allocated |-> ok,
   nr_slots |-> nr, in |-> in, out |-> out, count |-> count, held |-> held]

(* no slot storage: ringbuffer.slots is NULL or points to freed memory *)
NoSlots == [i \in {} |-> 0]

(* the buffer after a call of init_ringbuffer(n) whose malloc succeeded *)
InitRing(n) ==
  /\ init_ringbuffer(n)
  /\ rb_alloc = "live"
  /\ lpc = "open"
  /\ linit = <<InitRecord(n, TRUE, n, 0, 0, 0, 0)>>
  /\ written = <<>>
  /\ rpc = [t \in RingThreads |-> "out"]
  /\ rval = [t \in RingThreads |-> 0]
  /\ rtmp = [t \in RingThreads |-> 0]
  /\ rreg = [t \in RingThreads |-> 0]
  /\ enqueued = <<>>
  /\ dequeued = <<>>
  /\ ndeq = 0

RGoto(t, l) == rpc' = [rpc EXCEPT ![t] = l]

(* caller: a producer calls enqueue_into_ringbuffer with a fresh value *)
RCallEnqueue(t) ==
  /\ lpc = "open"
  /\ rpc[t] = "out"
  /\ Len(enqueued) < MaxItems
  /\ rval' = [rval EXCEPT ![t] = Len(enqueued) + 1]
  /\ enqueued' = Append(enqueued, Len(enqueued) + 1)
  /\ RGoto(t, "L245")
  /\ UNCHANGED <<rb_nr_slots, rb_slots, rb_held, rb_count, rb_out, rb_in,
                 rtmp, rreg, dequeued, ndeq>>
  /\ UNCHANGED <<spinvars, mutexvars, lifevars, written>>

(* 245: while (ringbuffer.count == ringbuffer.nr_slots) ;  -- leaves the loop *)
EnqWaitSpace(t) ==
  /\ rpc[t] = "L245"
  /\ rb_count # rb_nr_slots
  /\ RGoto(t, "L247")
  /\ UNCHANGED <<rb_nr_slots, rb_slots, rb_held, rb_count, rb_out, rb_in,
                 rval, rtmp, rreg, enqueued, dequeued, ndeq>>
  /\ UNCHANGED <<spinvars, mutexvars, lifevars, written>>

(* 247: while (compare_and_swap(&ringbuffer.held, 0, 1)) ;  -- one iteration *)
EnqSpin(t) ==
  /\ rpc[t] = "L247"
  /\ rb_held' = CasStore(rb_held, 0, 1)
  /\ RGoto(t, IF CasReturn(rb_held, 0, 1) # 0 THEN "L247" ELSE "L249")
  /\ UNCHANGED <<rb_nr_slots, rb_slots, rb_count, rb_out, rb_in,
                 rval, rtmp, rreg, enqueued, dequeued, ndeq>>
  /\ UNCHANGED <<spinvars, mutexvars, lifevars, written>>

(* enqueue without the re-check of count under the flag *)
EnqRecheck_NoRecheck(t) ==
  /\ rpc[t] = "L249"
  /\ RGoto(t, "L254")
  /\ UNCHANGED <<rb_nr_slots, rb_slots, rb_held, rb_count, rb_out, rb_in,
                 rval, rtmp, rreg, enqueued, dequeued, ndeq>>
  /\ UNCHANGED <<spinvars, mutexvars, lifevars, written>>

(* 249-253: if (count == nr_slots) { held = 0; goto again; } *)
EnqRecheck(t) ==
  /\ rpc[t] = "L249"
  /\ IF rb_count = rb_nr_slots
       THEN rb_held' = 0 /\ RGoto(t, "L245")
       ELSE UNCHANGED rb_held /\ RGoto(t, "L254")
  /\ UNCHANGED <<rb_nr_slots, rb_slots, rb_count, rb_out, rb_in,
                 rval, rtmp, rreg, enqueued, dequeued, ndeq>>
  /\ UNCHANGED <<spinvars, mutexvars, lifevars, written>>

(* 254: *(ringbuffer.slots + ringbuffer.in) = value; the store faults when *)
(* slots is NULL, which ends the process                                   *)
EnqWrite(t) ==
  /\ rpc[t] = "L254"
  /\ IF rb_alloc = "live"
       THEN /\ rb_slots' = [rb_slots EXCEPT ![rb_in] = rval[t]]
            /\ written' = Append(written, rval[t])
            /\ RGoto(t, "L255")
            /\ UNCHANGED lpc
       ELSE /\ lpc' = "fault"
            /\ RGoto(t, "fault")
            /\ UNCHANGED <<rb_slots, written>>
  /\ UNCHANGED <<rb_nr_slots, rb_held, rb_count, rb_out, rb_in,
                 rval, rtmp, rreg, enqueued, dequeued, ndeq>>
  /\ UNCHANGED <<spinvars, mutexvars, rb_alloc, linit>>

(* the advance of in that does not wrap around at nr_slots *)
EnqAdvance_NoWrap(t) ==
  /\ rpc[t] = "L255"
  /\ rb_in' = rb_in + 1
  /\ RGoto(t, "L256r")
  /\ UNCHANGED <<rb_nr_slots, rb_slots, rb_held, rb_count, rb_out,
                 rval, rtmp, rreg, enqueued, dequeued, ndeq>>
  /\ UNCHANGED <<spinvars, mutexvars, lifevars, written>>

(* 255: ringbuffer.in = (ringbuffer.in + 1) % ringbuffer.nr_slots *)
EnqAdvance(t) ==
  /\ rpc[t] = "L255"
  /\ rb_in' = (rb_in + 1) % rb_nr_slots
  /\ RGoto(t, "L256r")
  /\ UNCHANGED <<rb_nr_slots, rb_slots, rb_held, rb_count, rb_out,
                 rval, rtmp, rreg, enqueued, dequeued, ndeq>>
  /\ UNCHANGED <<spinvars, mutexvars, lifevars, written>>

(* 256: ringbuffer.count++  (load) *)
EnqLoadCount(t) ==
  /\ rpc[t] = "L256r"
  /\ rreg' = [rreg EXCEPT ![t] = rb_count]
  /\ RGoto(t, "L256w")
  /\ UNCHANGED <<rb_nr_slots, rb_slots, rb_held, rb_count, rb_out, rb_in,
                 rval, rtmp, enqueued, dequeued, ndeq>>
  /\ UNCHANGED <<spinvars, mutexvars, lifevars, written>>

(* 256: ringbuffer.count++  (store) *)
EnqStoreCount(t) ==
  /\ rpc[t] = "L256w"
  /\ rb_count' = rreg[t] + 1
  /\ rreg' = [rreg EXCEPT ![t] = 0]
  /\ RGoto(t, "L257")
  /\ UNCHANGED <<rb_nr_slots, rb_slots, rb_held, rb_out, rb_in,
                 rval, rtmp, enqueued, dequeued, ndeq>>
  /\ UNCHANGED <<spinvars, mutexvars, lifevars, written>>

(* 257-258: ringbuffer.held = 0; return *)
EnqUnlock(t) ==
  /\ rpc[t] = "L257"
  /\ rb_held' = 0
  /\ rval' = [rval EXCEPT ![t] = 0]
  /\ RGoto(t, "out")
  /\ UNCHANGED <<rb_nr_slots, rb_slots, rb_count, rb_out, rb_in,
                 rtmp, rreg, enqueued, dequeued, ndeq>>
  /\ UNCHANGED <<spinvars, mutexvars, lifevars, written>>

(* caller: a consumer calls dequeue_from_ringbuffer *)
RCallDequeue(t) ==
  /\ lpc = "open"
  /\ rpc[t] = "out"
  /\ ndeq < MaxItems
  /\ ndeq' = ndeq + 1
  /\ RGoto(t, "L273")
  /\ UNCHANGED <<rb_nr_slots, rb_slots, rb_held, rb_count, rb_out, rb_in,
                 rval, rtmp, rreg, enqueued, dequeued>>
  /\ UNCHANGED <<spinvars, mutexvars, lifevars, written>>

(* 273: while (ringbuffer.count == 0) ;  -- leaves the loop *)
DeqWaitItem(t) ==
  /\ rpc[t] = "L273"
  /\ rb_count # 0
  /\ RGoto(t, "L275")
  /\ UNCHANGED <<rb_nr_slots, rb_slots, rb_held, rb_count, rb_out, rb_in,
                 rval, rtmp, rreg, enqueued, dequeued, ndeq>>
  /\ UNCHANGED <<spinvars, mutexvars, lifevars, written>>

(* 275: while (compare_and_swap(&ringbuffer.held, 0, 1)) ;  -- one iteration *)
DeqSpin(t) ==
  /\ rpc[t] = "L275"
  /\ rb_held' = CasStore(rb_held, 0, 1)
  /\ RGoto(t, IF CasReturn(rb_held, 0, 1) # 0 THEN "L275" ELSE "L277")
  /\ UNCHANGED <<rb_nr_slots, rb_slots, rb_count, rb_out, rb_in,
                 rval, rtmp, rreg, enqueued, dequeued, ndeq>>
  /\ UNCHANGED <<spinvars, mutexvars, lifevars, written>>

(* 277-281: if (count == 0) { held = 0; goto again; } *)
DeqRecheck(t) ==
  /\ rpc[t] = "L277"
  /\ IF rb_count = 0
       THEN rb_held' = 0 /\ RGoto(t, "L273")
       ELSE UNCHANGED rb_held /\ RGoto(t, "L282")
  /\ UNCHANGED <<rb_nr_slots, rb_slots, rb_count, rb_out, rb_in,
                 rval, rtmp, rreg, enqueued, dequeued, ndeq>>
  /\ UNCHANGED <<spinvars, mutexvars, lifevars, written>>

(* 282: tmp = ringbuffer.out *)
DeqTmp(t) ==
  /\ rpc[t] = "L282"
  /\ rtmp' = [rtmp EXCEPT ![t] = rb_out]
  /\ RGoto(t, "L283")
  /\ UNCHANGED <<rb_nr_slots, rb_slots, rb_held, rb_count, rb_out, rb_in,
                 rval, rreg, enqueued, dequeued, ndeq>>
  /\ UNCHANGED <<spinvars, mutexvars, lifevars, written>>

(* 283: ringbuffer.out = (ringbuffer.out + 1) % ringbuffer.nr_slots *)
DeqAdvance(t) ==
  /\ rpc[t] = "L283"
  /\ rb_out' = (rb_out + 1) % rb_nr_slots
  /\ RGoto(t, "L284r")
  /\ UNCHANGED <<rb_nr_slots, rb_slots, rb_held, rb_count, rb_in,
                 rval, rtmp, rreg, enqueued, dequeued, ndeq>>
  /\ UNCHANGED <<spinvars, mutexvars, lifevars, written>>

(* 284: ringbuffer.count--  (load) *)
DeqLoadCount(t) ==
  /\ rpc[t] = "L284r"
  /\ rreg' = [rreg EXCEPT ![t] = rb_count]
  /\ RGoto(t, "L284w")
  /\ UNCHANGED <<rb_nr_slots, rb_slots, rb_held, rb_count, rb_out, rb_in,
                 rval, rtmp, enqueued, dequeued, ndeq>>
  /\ UNCHANGED <<spinvars, mutexvars, lifevars, written>>

(* 284: ringbuffer.count--  (store) *)
DeqStoreCount(t) ==
  /\ rpc[t] = "L284w"
  /\ rb_count' = rreg[t] - 1
  /\ rreg' = [rreg EXCEPT ![t] = 0]
  /\ RGoto(t, "L285")
  /\ UNCHANGED <<rb_nr_slots, rb_slots, rb_held, rb_out, rb_in,
                 rval, rtmp, enqueued, dequeued, ndeq>>
  /\ UNCHANGED <<spinvars, mutexvars, lifevars, written>>

(* 285: ringbuffer.held = 0 *)
DeqUnlock(t) ==
  /\ rpc[t] = "L285"
  /\ rb_held' = 0
  /\ RGoto(t, "L286")
  /\ UNCHANGED <<rb_nr_slots, rb_slots, rb_count, rb_out, rb_in,
                 rval, rtmp, rreg, enqueued, dequeued, ndeq>>
  /\ UNCHANGED <<spinvars, mutexvars, lifevars, written>>

(* 286: return *(ringbuffer.slots + tmp) *)
DeqReturn(t) ==
  /\ rpc[t] = "L286"
  /\ dequeued' = Append(dequeued, rb_slots[rtmp[t]])
  /\ rtmp' = [rtmp EXCEPT ![t] = 0]
  /\ RGoto(t, "out")
  /\ UNCHANGED <<rb_nr_slots, rb_slots, rb_held, rb_count, rb_out, rb_in,
                 rval, rreg, enqueued, ndeq>>
  /\ UNCHANGED <<spinvars, mutexvars, lifevars, written>>

enqueue_into_ringbuffer(t) ==
  \/ EnqWaitSpace(t) \/ EnqSpin(t) \/ EnqRecheck(t) \/ EnqWrite(t)
  \/ EnqAdvance(t) \/ EnqLoadCount(t) \/ EnqStoreCount(t) \/ EnqUnlock(t)

dequeue_from_ringbuffer(t) ==
  \/ DeqWaitItem(t) \/ DeqSpin(t) \/ DeqRecheck(t) \/ DeqTmp(t)
  \/ DeqAdvance(t) \/ DeqLoadCount(t) \/ DeqStoreCount(t) \/ DeqUnlock(t)
  \/ DeqReturn(t)

(* the reset that leaves ringbuffer.in as it was *)
ResetIndices_KeepsIn ==
  /\ rb_out' = 0
  /\ rb_count' = 0
  /\ UNCHANGED rb_in

(* 319-321 and 298-300: in = 0; out = 0; count = 0 *)
ResetIndices ==
  /\ rb_in' = 0
  /\ rb_out' = 0
  /\ rb_count' = 0

(* 234: struct ringbuffer ringbuffer = {}: every field zero, slots NULL,   *)
(* before the first init_ringbuffer                                        *)
InitRingStatic ==
  /\ rb_nr_slots = 0
  /\ rb_slots = NoSlots
  /\ rb_alloc = "null"
  /\ rb_held = 0
  /\ rb_count = 0
  /\ rb_out = 0
  /\ rb_in = 0
  /\ lpc = "start"
  /\ linit = <<>>
  /\ written = <<>>
  /\ rpc = [t \in RingThreads |-> "out"]
  /\ rval = [t \in RingThreads |-> 0]
  /\ rtmp = [t \in RingThreads |-> 0]
  /\ rreg = [t \in RingThreads |-> 0]
  /\ enqueued = <<>>
  /\ dequeued = <<>>
  /\ ndeq = 0

(* init_ringbuffer(n) called, lines 316-323: malloc gives storage or NULL; *)
(* the caller goes on to use the buffer when the status is 0               *)
CallInitRingbuffer(n) ==
  /\ lpc \in {"start", "closed"}
  /\ Len(linit) < MaxInits
  /\ rb_nr_slots' = n
  /\ ResetIndices
  /\ rb_held' = 0
  /\ \E ok \in BOOLEAN :
       /\ rb_alloc' = IF ok THEN "live" ELSE "null"
       /\ rb_slots' = IF ok THEN [i \in 0..(n - 1) |-> 0] ELSE NoSlots
       /\ linit' = Append(linit, InitRecord(n, ok, rb_nr_slots', rb_in',
                                            rb_out', rb_count', rb_held'))
  /\ lpc' = IF InitStatus = 0 THEN "open" ELSE lpc
  /\ UNCHANGED <<rpc, rval, rtmp, rreg, enqueued, dequeued, ndeq, written>>
  /\ UNCHANGED <<spinvars, mutexvars>>

(* fini_ringbuffer(), lines 297-300, called once every enqueue and dequeue *)
(* call has returned; free(NULL) does nothing                              *)
fini_ringbuffer ==
  /\ lpc = "open"
  /\ \A t \in RingThreads : rpc[t] = "out"
  /\ rb_alloc' = IF rb_alloc = "live" THEN "freed" ELSE rb_alloc
  /\ rb_slots' = NoSlots
  /\ ResetIndices
  /\ lpc' = "closed"
  /\ UNCHANGED <<rb_nr_slots, rb_held, rpc, rval, rtmp, rreg,
                 enqueued, dequeued, ndeq, written, linit>>
  /\ UNCHANGED <<spinvars, mutexvars>>

(* any number of producers and consumers *)
NextRing ==
  \/ \E t \in Producers : RCallEnqueue(t) \/ enqueue_into_ringbuffer(t)
  \/ \E t \in Consumers : RCallDequeue(t) \/ dequeue_from_ringbuffer(t)

(* one producer and one consumer *)
TheProducer == CHOOSE p \in Producers : \A q \in Producers : p <= q
TheConsumer == CHOOSE c \in Consumers : \A d \in Consumers : c <= d

NextRingSPSC ==
  \/ RCallEnqueue(TheProducer) \/ enqueue_into_ringbuffer(TheProducer)
  \/ RCallDequeue(TheConsumer) \/ dequeue_from_ringbuffer(TheConsumer)

Init == InitSpin /\ InitMutex /\ InitRing(MaxSlots)

(* the ring buffer initialised with any capacity N >= 1 *)
InitAnyCapacity ==
  InitSpin /\ InitMutex /\ \E n \in 1..MaxSlots : InitRing(n)

SpecSpin == Init /\ [][NextSpin]_vars

SpecMutex == Init /\ [][NextMutex]_vars

(* Scheduling: every thread that can take a step of acquire_mutex or       *)
(* release_mutex infinitely often takes it, and a thread that returned     *)
(* from acquire_mutex calls release_mutex.  Callers need not call acquire. *)
MutexFairness ==
  \A t \in MutexThreads :
    /\ SF_vars(acquire_mutex(t))
    /\ SF_vars(release_mutex(t))
    /\ WF_vars(MCallRelease(t))

FairSpecMutex == Init /\ [][NextMutex]_vars /\ MutexFairness

SpecRing == InitAnyCapacity /\ [][NextRing]_vars

SpecRingSPSC == InitAnyCapacity /\ [][NextRingSPSC]_vars

(* the buffer from the start of the process: init, use by one producer    *)
(* and one consumer, fini, init again                                      *)
InitLifecycle == InitSpin /\ InitMutex /\ InitRingStatic

NextRingLifecycle ==
  \/ \E n \in 1..MaxSlots : CallInitRingbuffer(n)
  \/ fini_ringbuffer
  \/ RCallEnqueue(TheProducer) \/ enqueue_into_ringbuffer(TheProducer)
  \/ RCallDequeue(TheConsumer) \/ dequeue_from_ringbuffer(TheConsumer)

SpecRingLifecycle == InitLifecycle /\ [][NextRingLifecycle]_vars

(* Scheduling: a thread inside enqueue_into_ringbuffer or                  *)
(* dequeue_from_ringbuffer that can infinitely often take a step takes it. *)
(* Callers need not call.                                                  *)
RingFairness ==
  /\ SF_vars(enqueue_into_ringbuffer(TheProducer))
  /\ SF_vars(dequeue_from_ringbuffer(TheConsumer))

FairSpecRingSPSC == InitAnyCapacity /\ [][NextRingSPSC]_vars /\ RingFairness

HoldsMutex(t) == mpc[t] = "cs"

(* the thread is in the S < 0 path of acquire_mutex, linked in the queue   *)
(* or already unlinked, and has not returned                               *)
InWaitPath(t) == mpc[t] \in {"L165", "L169", "L175", "L177"}
                 \/ (mblocking[t] /\ mpc[t] \in {"L183", "L184"})

(* release_mutex unlinked the waiter, which has not returned yet *)
Granted(w) == InWaitPath(w) /\ w \notin Range(m_Q)

ReturnsFromAcquire(t) == mpc[t] = "L184" /\ mpc'[t] = "cs"

(* C1: at most one thread is between its return from acquire_mutex and its *)
(* call of release_mutex.                                                  *)
C1_MutexExclusion == Cardinality({t \in MutexThreads : HoldsMutex(t)}) <= 1

(* C5: waiters return from acquire_mutex in the order in which they were   *)
(* appended to the wait queue (no waiter returns while one appended before *)
(* it has not), one per subsequent release_mutex: a release_mutex called   *)
(* while waiters are queued unlinks and wakes the first of them.           *)
C5_FifoOrder ==
  [][\A t \in MutexThreads :
       /\ (ReturnsFromAcquire(t) /\ mblocking[t]) => ahead[t] = {}
       /\ (mpc[t] = "L207" /\ mpc'[t] # "L207"
              /\ mseen[t] \cap Range(m_Q) # {})
            => mpc'[t] = "L209"
       /\ (mpc[t] = "L209" /\ mpc'[t] = "L211" /\ m_Q # <<>>)
            => mnext'[t] = Head(m_Q)]_vars

(* C7: a wake signal sent to a waiter that is linked into the queue but    *)
(* not yet in sigwait stays pending until its sigwait takes it ...         *)
C7_SignalStaysPending ==
  [][\A w \in MutexThreads :
       (sigpending[w] /\ mpc[w] \in {"L165", "L169"})
         => (sigpending'[w] \/ (mpc[w] = "L169" /\ mpc'[w] = "L175"))]_vars

(* C7: ... and the waiter then returns from acquire_mutex.                 *)
C7_NoLostWakeup ==
  \A w \in MutexThreads :
    (sigpending[w] /\ mpc[w] \in {"L165", "L169"}) ~> (mpc[w] = "cs")


Parked(t) == mpc[t] = "L169" /\ ~sigpending[t]

(* C8: every call of acquire_mutex returns: no thread is parked in sigwait *)
(* while nobody holds the mutex and no wake can come, every other thread   *)
(* being outside the mutex or parked too.                                  *)
C8_NoStuckWaiter ==
  ~ (/\ ~terminated
     /\ \E w \in MutexThreads : Parked(w)
     /\ \A t \in MutexThreads : Parked(t) \/ mpc[t] = "out")

(* C9: between the release_mutex step that unlinks waiter W and W's return *)
(* from acquire_mutex no other thread returns from acquire_mutex.          *)
C9_NoBarging ==
  [][\A t \in MutexThreads :
       ReturnsFromAcquire(t)
         => \A w \in MutexThreads \ {t} : ~Granted(w)]_vars

(* C10: a release_mutex call that stored S <= 0 sends exactly one SIGINT,  *)
(* to the thread that was first in the wait queue; one that stored S > 0   *)
(* sends none and leaves the queue alone.                                  *)
C10_WakePerRelease ==
  [][\A t \in MutexThreads :
       /\ (mpc[t] = "L207" /\ mpc'[t] # "L207")
            => (mpc'[t] = "L209" <=> mreg[t] + 1 <= 0)
       /\ (mpc[t] = "L209" /\ mpc'[t] = "L211")
            => (m_Q # <<>> /\ mnext'[t] = Head(m_Q) /\ m_Q' = Tail(m_Q))
       /\ (mpc[t] = "L213" /\ mpc'[t] = "L216")
            => (mkilled[t] = NotSent /\ mkilled'[t] = mnext[t]
                /\ mnext[t] \in MutexThreads)
       /\ (mpc[t] = "L216" /\ mpc'[t] = "out" /\ mnext[t] = NoThread)
            => mkilled[t] = NotSent]_vars

InSpinRegion(t) == spc[t] \in {"read", "write", "release"}

SpinAllDone == \A t \in SpinThreads : spc[t] = "out" /\ scycles[t] = SpinCycles

(* C2: at most one thread is between its return from acquire_spinlock and  *)
(* its call of release_spinlock, and when all T threads have done their K  *)
(* cycles the counter is exactly T*K.                                      *)
C2_SpinMutex ==
  /\ Cardinality({t \in SpinThreads : InSpinRegion(t)}) <= 1
  /\ SpinAllDone => counter = NumSpinThreads * SpinCycles

C2_Witness ==
  /\ SpinAllDone
  /\ counter = NumSpinThreads * SpinCycles

IsPrefix(a, b) == Len(a) <= Len(b) /\ a = SubSeq(b, 1, Len(a))

RingAllDone ==
  /\ \A t \in RingThreads : rpc[t] = "out"
  /\ Len(enqueued) = MaxItems
  /\ Len(dequeued) = MaxItems

(* C3: with one producer and one consumer the sequence of values returned  *)
(* by dequeue is a prefix of the sequence passed to enqueue, and equal to  *)
(* it once everything enqueued was dequeued.                               *)
C3_FifoSPSC ==
  /\ IsPrefix(dequeued, enqueued)
  /\ RingAllDone => dequeued = enqueued

(* C4: every value returned by dequeue was enqueued, no value is returned  *)
(* twice, and once as many values were received as enqueued each enqueued  *)
(* value was returned.                                                     *)
C4_NoLossNoDup ==
  /\ Range(dequeued) \subseteq Range(enqueued)
  /\ \A i, j \in 1..Len(dequeued) : dequeued[i] = dequeued[j] => i = j
  /\ RingAllDone => Range(dequeued) = Range(enqueued)

(* a step of enqueue_into_ringbuffer that writes a slot or increments count *)
EnqMutates(t) ==
  \/ rpc[t] = "L254" /\ rpc'[t] = "L255"
  \/ rpc[t] = "L256w" /\ rpc'[t] = "L257"

(* a step of dequeue_from_ringbuffer that advances out or decrements count *)
DeqMutates(t) ==
  \/ rpc[t] = "L283" /\ rpc'[t] = "L284r"
  \/ rpc[t] = "L284w" /\ rpc'[t] = "L285"

(* C6: in every reachable state 0 <= count <= nr_slots; enqueue writes no  *)
(* slot and does not increment count while count = nr_slots; dequeue does  *)
(* not advance out or decrement count while count = 0.                     *)
C6_BoundedCapacity ==
  /\ [](rb_count \in 0..rb_nr_slots)
  /\ [][/\ \A t \in Producers : EnqMutates(t) => rb_count < rb_nr_slots
        /\ \A t \in Consumers : DeqMutates(t) => rb_count > 0]_vars

(* the buffer is full, one producer is held back by the full buffer and    *)
(* the other is turned away by the re-check under the flag                 *)
C6_Witness ==
  /\ rb_count = rb_nr_slots
  /\ \E t, u \in Producers : rpc[t] = "L245" /\ rpc[u] = "L249"

(* C11: every init_ringbuffer call that returned reports whether the slot  *)
(* storage was allocated: its status is 0 exactly when malloc succeeded.   *)
C11_ReportsAllocFailure ==
  \A i \in 1..Len(linit) : (linit[i].status = 0) <=> linit[i].allocated

(* the producer is held back at line 245 by the full buffer *)
BlockedOnFull(t) == rpc[t] = "L245" /\ rb_count = rb_nr_slots

(* C12, first part: a thread in enqueue_into_ringbuffer stays at line 245  *)
(* while count = nr_slots.                                                 *)
C12_StaysBlocked ==
  [][\A t \in Producers : BlockedOnFull(t) => rpc'[t] = "L245"]_vars

(* C12, second part: once a dequeue has made room the enqueue completes.   *)
C12_Resumes ==
  \A t \in Producers :
    (rpc[t] = "L245" /\ rb_count < rb_nr_slots) ~> (rpc[t] = "out")

(* C12: with the buffer full an enqueue_into_ringbuffer(v) stays at line   *)
(* 245 while count = nr_slots, completes once a dequeue has made room      *)
(* (fair scheduling, one producer), and the values are then dequeued in    *)
(* the order of the earlier values followed by v.                          *)
C12_BlockedEnqueueResumes ==
  /\ C12_StaysBlocked
  /\ C12_Resumes
  /\ [](\A i \in 1..Len(dequeued) : dequeued[i] = enqueued[i])

SameFields(a, b) ==
  /\ a.in = b.in
  /\ a.out = b.out
  /\ a.count = b.count
  /\ a.held = b.held
  /\ a.nr_slots = b.nr_slots

(* C13: an init_ringbuffer(N) that follows init_ringbuffer(N), completed   *)
(* enqueues and dequeues and fini_ringbuffer() leaves the same in, out,    *)
(* count, held and nr_slots as the first init_ringbuffer(N) did.           *)
C13_IdempotentLifecycle ==
  \A i, j \in 1..Len(linit) :
    linit[i].arg = linit[j].arg => SameFields(linit[i], linit[j])

(* init(N), values enqueued and dequeued, fini, init(N) again *)
C13_Witness ==
  /\ Len(linit) = MaxInits
  /\ linit[1].arg = linit[MaxInits].arg
  /\ linit[1].allocated
  /\ Len(written) > 0
  /\ Len(dequeued) > 0
  /\ lpc = "open"

(* the thread won the compare_and_swap on mutex->held (line 155, 175 or    *)
(* 204) and has not yet executed its own clearing of it (line 165, 184,    *)
(* 211, or 216 when it did not pass line 211)                              *)
InSection(t) ==
  \/ mpc[t] \in {"L157r", "L157w", "L158", "L162", "L164", "L165",
                 "L177", "L183", "L184",
                 "L206r", "L206w", "L207", "L209", "L211"}
  \/ mpc[t] = "L216" /\ mkilled[t] = NotSent

(* C14: at most one thread at a time is between winning the                *)
(* compare_and_swap on mutex->held and its own clearing of it, and the     *)
(* flag is set for as long as a thread is there: nobody clears it under    *)
(* its owner.                                                              *)
C14_SectionExclusive ==
  /\ Cardinality({t \in MutexThreads : InSection(t)}) <= 1
  /\ (\E t \in MutexThreads : InSection(t)) => m_held = 1

(* the thread has decremented S (line 157) and not yet incremented it      *)
(* (line 206), seen from a state where nobody is inside the section: it is *)
(* waiting for its wake, or it holds the mutex                             *)
HoldsOrWaits(t) == mpc[t] \in {"L169", "L175", "cs", "L204"}

SectionEmpty == \A t \in MutexThreads : ~InSection(t)

(* C16: whenever no thread is inside the protected section, S is 1 minus   *)
(* the number of threads holding or waiting for the mutex, the queue holds *)
(* exactly -S waiters when S <= 0 and is empty when S >= 0.                *)
C16_CounterQueueInvariant ==
  (SectionEmpty /\ ~terminated) =>
    /\ m_S = 1 - Cardinality({t \in MutexThreads : HoldsOrWaits(t)})
    /\ m_S <= 0 => Len(m_Q) = 0 - m_S
    /\ m_S >= 0 => m_Q = <<>>

(* C17: a release_mutex that took the S <= 0 branch finds a waiter in the  *)
(* queue, so next is a waiter record and the SIGINT goes to a waiter.      *)
C17_NeverDequeuesEmpty ==
  \A t \in MutexThreads :
    /\ mpc[t] = "L209" => m_Q # <<>>
    /\ mpc[t] \in {"L211", "L213"} => mnext[t] \in MutexThreads
    /\ mkilled[t] # NotSent => (mkilled[t] = mnext[t] /\ mnext[t] \in MutexThreads)

(* C19: acquire_mutex returns only after line 183 freed its waiter record, *)
(* which it passes once per call, and release_mutex unlinks (line 210) and *)
(* reads (line 213) only records their owner has not freed.                *)
C19_RecordLifetime ==
  [][\A t \in MutexThreads :
       /\ (mpc'[t] = "L184" /\ mpc[t] # "L184") => mpc[t] = "L183"
       /\ (mpc[t] = "L209" /\ mpc'[t] = "L211" /\ m_Q # <<>>)
            => RecordValid(Head(m_Q))
       /\ (mpc[t] = "L213" /\ mpc'[t] = "L216" /\ mnext[t] # NoThread)
            => RecordValid(mnext[t])]_vars

(* a release_mutex call has unlinked the record of w and not yet sent its  *)
(* SIGINT                                                                  *)
WakeToBeSent(w) ==
  \E u \in MutexThreads : mpc[u] \in {"L211", "L213"} /\ mnext[u] = w

(* C20: every SIGINT release_mutex sends goes to a thread that has SIGINT  *)
(* blocked and none pending; no thread unblocks SIGINT or returns from     *)
(* acquire_mutex while a wake for it is pending or yet to be sent.         *)
C20_WakeOnlyBlockedWaiters ==
  [][\A t \in MutexThreads :
       /\ (mpc[t] = "L213" /\ mpc'[t] = "L216")
            => /\ mkilled'[t] \in MutexThreads
               /\ sigblocked[mkilled'[t]]
               /\ ~sigpending[mkilled'[t]]
       /\ ((mpc[t] = "L177" /\ mpc'[t] = "L183") \/ ReturnsFromAcquire(t))
            => (~sigpending[t] /\ ~WakeToBeSent(t))]_vars

(* the dequeue has copied out into tmp (line 282) and not yet read the     *)
(* slot at tmp (line 286)                                                  *)
SlotTaken(c) == rpc[c] \in {"L283", "L284r", "L284w", "L285", "L286"}

(* C15: no enqueue_into_ringbuffer writes (line 254) the slot a dequeue    *)
(* has taken and not yet read (line 286), so the dequeue returns what the  *)
(* slot held while it owned the flag.                                      *)
C15_ReadUnderProtection ==
  [][\A p \in Producers :
       (rpc[p] = "L254" /\ rpc'[p] = "L255")
         => \A c \in Consumers : SlotTaken(c) => rtmp[c] # rb_in]_vars

(* a thread is between winning the compare_and_swap on ringbuffer.held     *)
(* (line 247 or 275) and clearing it (line 251, 257, 279 or 285)           *)
OwnsRingFlag(t) ==
  rpc[t] \in {"L249", "L254", "L255", "L256r", "L256w", "L257",
              "L277", "L282", "L283", "L284r", "L284w", "L285"}

(* the number of dequeue_from_ringbuffer calls that have taken a slot,     *)
(* seen from a state where nobody owns the flag                            *)
NrTaken == ndeq - Cardinality({c \in Consumers : rpc[c] \in {"L273", "L275"}})

(* the values stored into the buffer and not yet taken, oldest first *)
Pending == SubSeq(written, NrTaken + 1, Len(written))

(* C18: whenever no thread owns the flag, in = (out + count) mod nr_slots  *)
(* and the values enqueued and not yet dequeued are the contents of slots  *)
(* out, out+1, ..., out+count-1 (mod nr_slots), in the order enqueued.     *)
C18_IndexInvariant ==
  (\A t \in RingThreads : ~OwnsRingFlag(t)) =>
    /\ rb_in = (rb_out + rb_count) % rb_nr_slots
    /\ Len(Pending) = rb_count
    /\ \A i \in 1..rb_count :
         rb_slots[(rb_out + i - 1) % rb_nr_slots] = Pending[i]

(* nobody owns the flag, the buffer is full and its oldest value is not in *)
(* slot 0: the occupied slots wrap around the end of the array             *)
C18_Witness ==
  /\ \A t \in RingThreads : ~OwnsRingFlag(t)
  /\ rb_nr_slots = MaxSlots
  /\ rb_count = rb_nr_slots
  /\ rb_out > 0
  /\ rb_in = rb_out
  /\ NrTaken > 0
====
